---- MODULE Spec2Model ----
(***************************************************************************)
(* State-machine model of the NVDA magnifier sources:                      *)
(*   source/visionEnhancementProviders/NVDAMagnifier.py  (highlight        *)
(*       overlay: context rectangles, paint pass, provider life cycle)     *)
(*   source/windows_utils.py  (window abstraction with its own message     *)
(*       loop, cross-thread command execution, magnifier host window)      *)
(* The specifications share the module, one per subsystem:                 *)
(*   SpecOverlay   context rectangle updates and the paint pass            *)
(*   SpecProvider  NVDAMagnifier.__init__ / _run / terminate               *)
(*   SpecWindow    BasicWindow / MagnifierWindow threads and messages      *)
(*   SpecEngine    zoom level and color filter trackers                    *)
(*   SpecOverlayWindow  MagnifyWindow: display bounds, drawing an outline  *)
(*   SpecGeometry  MagnifierWindow: tracked position and size, source      *)
(*       rectangle of the magnification control                            *)
(*   SpecProviderFair  SpecProvider with a fair magnifier thread           *)
(*   SpecConcurrent  SpecWindow with a second thread using the setter      *)
(*   SpecMarshalled  the window with WM_USER posted by _execute alone      *)
(*   SpecZoom      zoom level and engine position operations               *)
(***************************************************************************)
EXTENDS Integers, Sequences, FiniteSets, TLC

VARIABLES
    \* ---- overlay (NVDAMagnifier.py) ----
    settings,            \* NVDAMagnifierSettings: one boolean per supported context
    contextToRectMap,    \* NVDAMagnifier.contextToRectMap (a dict)
    fullscreenTransform, \* what the engine last received through set_fullscreen_transform
    lastCall,            \* the most recent overlay operation and the engine calls it made
    drawn                \* contextRects of the most recent paint pass (a dict)

overlayVars == <<settings, contextToRectMap, fullscreenTransform, lastCall, drawn>>

VARIABLES
    \* ---- provider life cycle (NVDAMagnifier.__init__, _run, terminate) ----
    mainPc,          \* where the constructing / terminating thread is
    workerPc,        \* where the magnifier thread is in _run
    ctorResult,      \* "none", "returned" or "raised": how __init__ ended
    waitResult,      \* what _magnifierRunningEvent.wait(0.2) returned
    runningEvent,    \* _magnifierRunningEvent is set
    selfWindow,      \* self._window has been assigned
    windowHandle,    \* "none", "live" or "destroyed": the overlay's OS window
    timerHeld,       \* the WinTimer exists
    quitPosted,      \* a quit message is waiting in the worker's queue
    paintPending,    \* the window is invalidated (a WM_PAINT is due)
    gdiPlus,         \* "uninit", "init" or "terminated"
    magnifierRef,    \* "live" or "dead": what MagnifyWindow.magnifierRef() refers to
    paintOutcome     \* "none", "painted" or "quit": how the last _paint ended

providerVars == <<mainPc, workerPc, ctorResult, waitResult, runningEvent, selfWindow,
                  windowHandle, timerHeld, quitPosted, paintPending, gdiPlus,
                  magnifierRef, paintOutcome>>

VARIABLES
    \* ---- window abstraction (windows_utils.py) ----
    callerPc,        \* per calling thread: where it is in run() / the setter / _execute
    callerCmd,       \* per calling thread: the command of its _execute call, what it got back
    nOps,            \* number of API calls made on the window so far
    lastOp,          \* the most recent API call: [kind, by, arg]
    ownerPc,         \* where the window's own thread is in BasicWindow.run.inner
    started,         \* _window_started_event is set (is_alive)
    waiters,         \* callers blocked inside _window_started_event.wait()
    thread_id,       \* _thread_id
    hwnd,            \* self.hwnd
    magnifier_hwnd,  \* self.magnifier_hwnd
    registered,      \* AbstractWindow.windows holds the entry of this window
    fullscreen_mode, \* _fullscreen_mode
    appliedMode,     \* the last of make_fullscreen / make_partial_screen that ran
    styleRunBy,      \* the thread that ran it
    command,         \* the _command queue
    result,          \* the _result queue
    msgq,            \* messages posted to the window, not yet dispatched
    quitFlag,        \* PostQuitMessage has been called
    magnifier,       \* "none", "bound" or "disposed": the WinMagnificationAPI binding
    disposed,        \* how many times dispose() ran
    bodyLog,         \* the handler bodies that ran, in order: [msg, by]
    envClosed        \* the user has used the close box

VARIABLES
    \* ---- engine trackers (module globals of windows_utils.py) ----
    mag_level,       \* the tracked zoom level
    curr_color,      \* the tracked color filter index
    colorEffect,     \* what the engine last received through set_fullscreen_color_effect
    colorTrail,      \* curr_color before and after the latest mag_setColor calls
    lastEngineOp     \* the most recent tracker call: [op, before]

engineVars == <<mag_level, curr_color, colorEffect, colorTrail, lastEngineOp>>

VARIABLES
    \* ---- overlay window (MagnifyWindow) ----
    location,        \* MagnifyWindow.location: None or a RectLTWH
    windowShown,     \* the overlay window is shown
    locationCall,    \* the last updateLocationForDisplays: [displays, raised]
    outline          \* the last outline of a paint pass: what went in, what was drawn

overlayWindowVars == <<location, windowShown, locationCall, outline>>

VARIABLES
    \* ---- MagnifierWindow geometry (windows_utils.py) ----
    position,             \* self.position: <<x, y>>
    size,                 \* self.size: <<width, height>>
    fullscreen_rectangle, \* self._fullscreen_rectangle: <<x, y, width, height>>
    winOrigin,            \* what GetWindowRect(hwnd)[:2] reports
    winClient,            \* what GetClientRect(hwnd)[2:] reports
    sentq,                \* messages the window procedure is being called with
    pendingStyle,         \* the make_* command of a setter call, not yet executed
    sourceRect,           \* controller.source.raw: None, or what _draw last stored
    nToggles              \* number of setter calls made on the live window

geometryVars == <<position, size, fullscreen_rectangle, winOrigin, winClient, sentq,
                  pendingStyle, sourceRect, nToggles>>

callerVars == <<callerPc, callerCmd, nOps, lastOp>>
handleVars == <<started, waiters, thread_id, hwnd, magnifier_hwnd, registered>>
styleVars == <<fullscreen_mode, appliedMode, styleRunBy>>
queueVars == <<command, result, msgq, quitFlag>>
ownerVars == <<ownerPc, magnifier, disposed, bodyLog, envClosed>>
windowVars == <<callerVars, handleVars, styleVars, queueVars, ownerVars, engineVars,
                overlayWindowVars, geometryVars>>

vars == <<overlayVars, providerVars, windowVars>>

(***************************************************************************)
(* Python values.                                                          *)
(***************************************************************************)
\* Python's None; a record, so that it compares (unequal) with rectangles.
None == [isNone |-> TRUE]

\* dict helpers: a dict is a function whose DOMAIN is the set of keys present.
EmptyDict == [k \in {} |-> None]
DictGet(d, k) == IF k \in DOMAIN d THEN d[k] ELSE None
\* a dict assignment that skips None values
DictSet_SkipNone(d, k, v) ==
    IF v = None THEN d ELSE [x \in (DOMAIN d) \cup {k} |-> IF x = k THEN v ELSE d[x]]

DictSet(d, k, v) == [x \in (DOMAIN d) \cup {k} |-> IF x = k THEN v ELSE d[x]]
DictPop(d, k) == [x \in (DOMAIN d) \ {k} |-> d[x]]

\* truthiness of an Optional[RectLTWH]: a 4-field namedtuple is truthy, None is not
Truthy(rect) == rect # None

(***************************************************************************)
(* Contexts and rectangles.                                                *)
(***************************************************************************)
FOCUS == "focus"
NAVIGATOR == "navigator"
BROWSEMODE == "browseMode"
FOCUS_NAVIGATOR == "focusNavigatorOverlap"

\* _supportedContexts, in the order the tuple lists them
supportedContexts == <<FOCUS, NAVIGATOR, BROWSEMODE>>
SupportedSet == {supportedContexts[i] : i \in 1..Len(supportedContexts)}

\* Screen rectangles the rectangle resolution can report: RectA and RectB
\* overlap without being equal.
RectA == [left |-> 0, top |-> 0, width |-> 2, height |-> 2]
RectB == [left |-> 1, top |-> 0, width |-> 2, height |-> 2]
Rects == {RectA, RectB}
OptRects == Rects \cup {None}

Overlaps(r, s) ==
    /\ r.left < s.left + s.width /\ s.left < r.left + r.width
    /\ r.top < s.top + s.height /\ s.top < r.top + r.height

\* NVDAMagnifier._get_enabledContexts: the supported contexts whose setting is on,
\* in the order of _supportedContexts
enabledContexts == SelectSeq(supportedContexts, LAMBDA c : settings[c])
EnabledSet == {c \in SupportedSet : settings[c]}

(***************************************************************************)
(* windows_utils: engine position.                                         *)
(***************************************************************************)
\* set_pos(x, y): mag.set_fullscreen_transform(2, [x, y])
set_pos(x, y) == [factor |-> 2, x |-> x, y |-> y]

\* set_level(): mag.set_fullscreen_transform(2, [2, 2])
set_level == [factor |-> 2, x |-> 2, y |-> 2]

(***************************************************************************)
(* NVDAMagnifier.updateContextRect, on a state st = [map, sent]: map is    *)
(* contextToRectMap and sent the engine calls made so far by the running   *)
(* operation.  rect is the rect argument; resolved is what getContextRect  *)
(* gives when it is consulted (None when it raises LookupError,            *)
(* NotImplementedError, RuntimeError or TypeError); raised is the set of    *)
(* contexts whose resolution raised during the running operation.          *)
(***************************************************************************)
ContextIsEnabled_Always(context) == TRUE

ContextIsEnabled(context) == context \in EnabledSet

updateContextRect(st, context, rect, resolved) ==
    IF ~ContextIsEnabled(context)
    THEN st
    ELSE LET r == IF rect = None THEN resolved ELSE rect
         IN  [map  |-> DictSet(st.map, context, r),
              sent |-> IF Truthy(r)
                       THEN Append(st.sent, set_pos(r.top, r.left))
                       ELSE st.sent,
              raised |-> IF rect = None /\ resolved = None
                         THEN st.raised \cup {context}
                         ELSE st.raised]

\* NVDAMagnifier.handleBrowseModeMove
handleBrowseModeMove(st, resolved) == updateContextRect(st, BROWSEMODE, None, resolved)

\* NVDAMagnifier.handleReviewMove
handleReviewMove(st, resolved) == updateContextRect(st, NAVIGATOR, None, resolved)

\* NVDAMagnifier.handleFocusChange; inTree is api.isObjectInActiveTreeInterceptor(obj)
handleFocusChange(st, resolvedFocus, inTree, resolvedBrowse) ==
    LET st1 == updateContextRect(st, FOCUS, None, resolvedFocus)
    IN  IF ~inTree
        THEN [st1 EXCEPT !.map = DictPop(st1.map, BROWSEMODE)]
        ELSE handleBrowseModeMove(st1, resolvedBrowse)

(***************************************************************************)
(* MagnifyWindow._paint, the collection pass (lines 170-183): the dict     *)
(* contextRects built by the loop over magnifier.enabledContexts.          *)
(***************************************************************************)
MergesWithFocus_Overlap(context, contextRects, rect) ==
    /\ context = NAVIGATOR
    /\ FOCUS \in DOMAIN contextRects
    /\ Overlaps(contextRects[FOCUS], rect)

MergesWithFocus(context, contextRects, rect) ==
    context = NAVIGATOR /\ DictGet(contextRects, FOCUS) = rect

RECURSIVE PaintLoop(_, _, _, _)
PaintLoop(contexts, map, i, contextRects) ==
    IF i > Len(contexts)
    THEN contextRects
    ELSE LET context == contexts[i]
             rect == DictGet(map, context)
         IN  IF ~Truthy(rect)
             THEN PaintLoop(contexts, map, i + 1, contextRects)
             ELSE IF MergesWithFocus(context, contextRects, rect)
             THEN PaintLoop(contexts, map, i + 1,
                      DictSet(DictPop(DictPop(contextRects, FOCUS), NAVIGATOR),
                              FOCUS_NAVIGATOR, rect))
             ELSE PaintLoop(contexts, map, i + 1, DictSet(contextRects, context, rect))

PaintContextRects == PaintLoop(enabledContexts, contextToRectMap, 1, EmptyDict)

(***************************************************************************)
(* Overlay operations.                                                     *)
(***************************************************************************)
Commit(op, context, st) ==
    /\ contextToRectMap' = st.map
    /\ lastCall' = [op |-> op, context |-> context, sent |-> st.sent,
                    raised |-> st.raised]
    /\ fullscreenTransform' =
           IF st.sent = <<>> THEN fullscreenTransform ELSE st.sent[Len(st.sent)]
    /\ UNCHANGED <<settings, drawn>>
    /\ UNCHANGED <<providerVars, windowVars>>

Start == [map |-> contextToRectMap, sent |-> <<>>, raised |-> {}]

\* a settings change: one magnify<Context> flag is switched
SetSetting ==
    \E c \in SupportedSet :
        /\ settings' = [settings EXCEPT ![c] = ~settings[c]]
        /\ lastCall' = [op |-> "setSetting", context |-> c, sent |-> <<>>,
                        raised |-> {}]
        /\ UNCHANGED <<contextToRectMap, fullscreenTransform, drawn>>
        /\ UNCHANGED <<providerVars, windowVars>>

UpdateContextRectCall ==
    \E context \in SupportedSet, rect \in OptRects :
      \E resolved \in (IF rect = None THEN OptRects ELSE {None}) :
        Commit("updateContextRect", context,
               updateContextRect(Start, context, rect, resolved))

HandleFocusChangeCall ==
    \E resolvedFocus \in OptRects, inTree \in BOOLEAN, resolvedBrowse \in OptRects :
        Commit("handleFocusChange", FOCUS,
               handleFocusChange(Start, resolvedFocus, inTree, resolvedBrowse))

HandleReviewMoveCall ==
    \E resolved \in OptRects :
        Commit("handleReviewMove", NAVIGATOR, handleReviewMove(Start, resolved))

HandleBrowseModeMoveCall ==
    \E resolved \in OptRects :
        Commit("handleBrowseModeMove", BROWSEMODE, handleBrowseModeMove(Start, resolved))

\* WM_PAINT with a live owner: the collection pass, then one outline per entry
Paint ==
    /\ drawn' = PaintContextRects
    /\ lastCall' = [op |-> "paint", context |-> "", sent |-> <<>>, raised |-> {}]
    /\ UNCHANGED <<settings, contextToRectMap, fullscreenTransform>>
    /\ UNCHANGED <<providerVars, windowVars>>

OverlayInit ==
    /\ settings = [c \in SupportedSet |-> FALSE]
    /\ contextToRectMap = EmptyDict
    /\ fullscreenTransform = set_level
    /\ lastCall = [op |-> "init", context |-> "", sent |-> <<>>, raised |-> {}]
    /\ drawn = EmptyDict

OverlayNext ==
    \/ SetSetting
    \/ UpdateContextRectCall
    \/ HandleFocusChangeCall
    \/ HandleReviewMoveCall
    \/ HandleBrowseModeMoveCall
    \/ Paint

(***************************************************************************)
(* Provider life cycle: NVDAMagnifier.__init__, _run and terminate.        *)
(* The constructing thread ("main") and the magnifier thread ("worker")    *)
(* interleave statement by statement.                                      *)
(***************************************************************************)
ProviderIdle ==
    /\ mainPc = "new"
    /\ workerPc = "notStarted"
    /\ ctorResult = "none"
    /\ waitResult = FALSE
    /\ runningEvent = FALSE
    /\ selfWindow = FALSE
    /\ windowHandle = "none"
    /\ timerHeld = FALSE
    /\ quitPosted = FALSE
    /\ paintPending = FALSE
    /\ gdiPlus = "uninit"
    /\ magnifierRef = "live"
    /\ paintOutcome = "none"

\* threading.Thread.is_alive() of the magnifier thread
WorkerEnded == {"exited", "failed"}
ThreadIsAlive == workerPc \notin (WorkerEnded \cup {"notStarted"})

\* ---- __init__ ----------------------------------------------------------
\* lines 425-435: the map, gdiPlusInitialize, the thread and its event; start()
CtorStart ==
    /\ mainPc = "new"
    /\ mainPc' = "ctorWait"
    /\ workerPc' = "started"
    /\ gdiPlus' = "init"
    /\ contextToRectMap' = EmptyDict
    /\ UNCHANGED <<ctorResult, waitResult, runningEvent, selfWindow, windowHandle,
                   timerHeld, quitPosted, paintPending, magnifierRef, paintOutcome>>
    /\ UNCHANGED <<settings, fullscreenTransform, lastCall, drawn>>
    /\ UNCHANGED windowVars

\* line 437: Event.wait(0.2) returns True once the event is set, and False when
\* the 0.2 s pass with the event still unset
CtorWait ==
    /\ mainPc = "ctorWait"
    /\ waitResult' = runningEvent
    /\ mainPc' = "ctorCheck"
    /\ UNCHANGED <<workerPc, ctorResult, runningEvent, selfWindow, windowHandle,
                   timerHeld, quitPosted, paintPending, gdiPlus, magnifierRef,
                   paintOutcome>>
    /\ UNCHANGED <<overlayVars, windowVars>>

\* line 438: the condition under which __init__ raises RuntimeError
CtorInitFailed_AliveOnly == ~ThreadIsAlive

CtorInitFailed == waitResult = FALSE \/ ~ThreadIsAlive

\* lines 438-439
CtorCheck ==
    /\ mainPc = "ctorCheck"
    /\ ctorResult' = IF CtorInitFailed THEN "raised" ELSE "returned"
    /\ mainPc' = "idle"
    /\ UNCHANGED <<workerPc, waitResult, runningEvent, selfWindow, windowHandle,
                   timerHeld, quitPosted, paintPending, gdiPlus, magnifierRef,
                   paintOutcome>>
    /\ UNCHANGED <<overlayVars, windowVars>>

\* ---- _run --------------------------------------------------------------
WorkerStep(from, to) ==
    /\ workerPc = from
    /\ workerPc' = to
    /\ UNCHANGED <<mainPc, ctorResult, waitResult, magnifierRef>>
    /\ UNCHANGED <<overlayVars, windowVars>>

\* line 458, the call customWindowClass(self): MagnifyWindow.__init__ creates the
\* OS window (lines 126-130) ...
WorkerCreateWindow ==
    /\ WorkerStep("started", "windowCreated")
    /\ windowHandle' = "live"
    /\ UNCHANGED <<runningEvent, selfWindow, timerHeld, quitPosted, paintPending, gdiPlus>>
    /\ UNCHANGED paintOutcome

\* ... or the creation raises inside the thread, which the except clause of
\* line 473 logs: the thread ends
WorkerCreateWindowFails ==
    /\ WorkerStep("started", "failed")
    /\ UNCHANGED <<runningEvent, selfWindow, windowHandle, timerHeld, quitPosted,
                   paintPending, gdiPlus>>
    /\ UNCHANGED paintOutcome

\* line 458, the assignment: window = self._window = <the new window>
WorkerAssignWindow ==
    /\ WorkerStep("windowCreated", "windowAssigned")
    /\ selfWindow' = TRUE
    /\ UNCHANGED <<runningEvent, windowHandle, timerHeld, quitPosted, paintPending, gdiPlus>>
    /\ UNCHANGED paintOutcome

\* line 459: the timer
WorkerCreateTimer ==
    /\ WorkerStep("windowAssigned", "timerCreated")
    /\ timerHeld' = TRUE
    /\ UNCHANGED <<runningEvent, selfWindow, windowHandle, quitPosted, paintPending, gdiPlus>>
    /\ UNCHANGED paintOutcome

\* line 459 raising (WinTimer cannot be set): logged at line 473, the thread ends
WorkerCreateTimerFails ==
    /\ WorkerStep("windowAssigned", "failed")
    /\ UNCHANGED <<runningEvent, selfWindow, windowHandle, timerHeld, quitPosted,
                   paintPending, gdiPlus>>
    /\ UNCHANGED paintOutcome

\* line 460: self._magnifierRunningEvent.set()
WorkerSetEvent ==
    /\ WorkerStep("timerCreated", "loop")
    /\ runningEvent' = TRUE
    /\ UNCHANGED <<selfWindow, windowHandle, timerHeld, quitPosted, paintPending, gdiPlus>>
    /\ UNCHANGED paintOutcome

\* lines 462-464 with windowProc's WM_TIMER branch: refresh() invalidates the window
WorkerTimerTick ==
    /\ WorkerStep("loop", "loop")
    /\ timerHeld /\ ~paintPending
    /\ paintPending' = TRUE
    /\ UNCHANGED <<runningEvent, selfWindow, windowHandle, timerHeld, quitPosted, gdiPlus>>
    /\ UNCHANGED paintOutcome

\* _paint, lines 165-169: the weak reference to the owning provider is empty
PaintQuits_Never == FALSE

PaintQuits == magnifierRef = "dead"

\* lines 462-464 with windowProc's WM_PAINT branch: _paint.  With the owner gone
\* it posts the quit message and returns before anything is drawn (the window
\* is not validated, so a paint stays due); otherwise it paints
WorkerPaint ==
    /\ WorkerStep("loop", "loop")
    /\ paintPending
    /\ IF PaintQuits
       THEN /\ quitPosted' = TRUE
            /\ paintOutcome' = "quit"
            /\ UNCHANGED paintPending
       ELSE /\ paintPending' = FALSE
            /\ paintOutcome' = "painted"
            /\ UNCHANGED quitPosted
    /\ UNCHANGED <<runningEvent, selfWindow, windowHandle, timerHeld, gdiPlus>>

\* lines 462-464 with windowProc's WM_DESTROY branch (lines 156-157): the window
\* is told that it is being destroyed and posts the quit message itself
WorkerOnDestroy ==
    /\ WorkerStep("loop", "loop")
    /\ ~quitPosted
    /\ quitPosted' = TRUE
    /\ UNCHANGED <<runningEvent, selfWindow, windowHandle, timerHeld, paintPending, gdiPlus>>
    /\ UNCHANGED paintOutcome

\* line 462: getMessage returns 0 for the quit message and the loop ends
WorkerGetQuit ==
    /\ WorkerStep("loop", "afterLoop")
    /\ quitPosted
    /\ quitPosted' = FALSE
    /\ UNCHANGED <<runningEvent, selfWindow, windowHandle, timerHeld, paintPending, gdiPlus>>
    /\ UNCHANGED paintOutcome

\* line 471: timer.terminate()
WorkerTerminateTimer ==
    /\ WorkerStep("afterLoop", "timerTerminated")
    /\ timerHeld' = FALSE
    /\ UNCHANGED <<runningEvent, selfWindow, windowHandle, quitPosted, paintPending, gdiPlus>>
    /\ UNCHANGED paintOutcome

\* line 472: window.destroy(), which destroys the OS window and clears
\* window.handle; _run returns and the thread ends
WorkerDestroyWindow ==
    /\ WorkerStep("timerTerminated", "exited")
    /\ windowHandle' = "destroyed"
    /\ paintPending' = FALSE
    /\ UNCHANGED <<runningEvent, selfWindow, timerHeld, quitPosted, gdiPlus>>
    /\ UNCHANGED paintOutcome

\* ---- the owner goes away ------------------------------------------------
\* MagnifyWindow holds the provider through weakref.ref (line 134): once the
\* instance is no longer referenced, magnifierRef() gives None.  No method of
\* the instance is running, and none can be called afterwards
OwnerReleased ==
    /\ mainPc \in {"idle", "terminated", "termRaised"}
    /\ mainPc' = "released"
    /\ magnifierRef' = "dead"
    /\ UNCHANGED <<workerPc, ctorResult, waitResult, runningEvent, selfWindow,
                   windowHandle, timerHeld, quitPosted, paintPending, gdiPlus,
                   paintOutcome>>
    /\ UNCHANGED <<overlayVars, windowVars>>

\* ---- terminate ---------------------------------------------------------
MainStep(from, to) ==
    /\ mainPc = from
    /\ mainPc' = to
    /\ UNCHANGED <<workerPc, ctorResult, waitResult, runningEvent, selfWindow,
                   windowHandle, timerHeld, paintPending, magnifierRef, paintOutcome>>

\* terminate() is called on the instance, after __init__ returned or raised
TerminateCall ==
    /\ MainStep("idle", "termCheck")
    /\ UNCHANGED <<quitPosted, gdiPlus>>
    /\ UNCHANGED <<overlayVars, windowVars>>

\* line 443: self._magnifierThread and self._window and self._window.handle
TerminateMustPost == selfWindow /\ windowHandle = "live"

TermCheck ==
    /\ MainStep("termCheck", IF TerminateMustPost THEN "termPost" ELSE "termRelease")
    /\ UNCHANGED <<quitPosted, gdiPlus>>
    /\ UNCHANGED <<overlayVars, windowVars>>

\* line 444: PostThreadMessageW(thread.ident, WM_QUIT) reaches the queue of a
\* running thread; for a thread that has ended it returns 0 ...
PostThreadMessageSucceeds_Always == TRUE

PostThreadMessageSucceeds == ThreadIsAlive

TermPost ==
    /\ PostThreadMessageSucceeds
    /\ MainStep("termPost", "termJoin")
    /\ quitPosted' = TRUE
    /\ UNCHANGED gdiPlus
    /\ UNCHANGED <<overlayVars, windowVars>>

\* ... and line 445 raises WinError out of terminate
TermPostRaises ==
    /\ ~PostThreadMessageSucceeds
    /\ MainStep("termPost", "termRaised")
    /\ UNCHANGED <<quitPosted, gdiPlus>>
    /\ UNCHANGED <<overlayVars, windowVars>>

\* line 447: self._magnifierThread.join() returns when the thread has ended
\* (line 448 then sets the unused attribute _magnifierrThread)
TermJoin ==
    /\ ~ThreadIsAlive
    /\ MainStep("termJoin", "termRelease")
    /\ UNCHANGED <<quitPosted, gdiPlus>>
    /\ UNCHANGED <<overlayVars, windowVars>>

\* lines 449-451: gdiPlusTerminate(), contextToRectMap.clear(), super().terminate()
TermRelease ==
    /\ MainStep("termRelease", "terminated")
    /\ gdiPlus' = "terminated"
    /\ contextToRectMap' = EmptyDict
    /\ UNCHANGED quitPosted
    /\ UNCHANGED <<settings, fullscreenTransform, lastCall, drawn>>
    /\ UNCHANGED windowVars

\* ---- the instance in use ------------------------------------------------
\* between __init__ and terminate the instance receives settings changes and
\* the calls of its handlers (here the review move), on the thread that
\* constructed it
ProviderHandlerCall ==
    /\ mainPc = "idle"
    /\ (SetSetting \/ HandleReviewMoveCall)

ProviderNext ==
    \/ CtorStart
    \/ ProviderHandlerCall
    \/ CtorWait
    \/ CtorCheck
    \/ WorkerCreateWindow
    \/ WorkerCreateWindowFails
    \/ WorkerAssignWindow
    \/ WorkerCreateTimer
    \/ WorkerCreateTimerFails
    \/ WorkerSetEvent
    \/ WorkerTimerTick
    \/ WorkerPaint
    \/ WorkerOnDestroy
    \/ WorkerGetQuit
    \/ WorkerTerminateTimer
    \/ WorkerDestroyWindow
    \/ OwnerReleased
    \/ TerminateCall
    \/ TermCheck
    \/ TermPost
    \/ TermPostRaises
    \/ TermJoin
    \/ TermRelease


(***************************************************************************)
(* Window abstraction: AbstractWindow, win_event, BasicWindow,             *)
(* MagnifierWindow.  "owner" is the thread BasicWindow.run starts; Callers *)
(* are the other threads that use the window.                              *)
(***************************************************************************)
\* API calls made on the window in one run of the model
MaxOps == 3

Owner == "owner"
Callers == {"c1", "c2"}
\* the callers that act: calls on a window are serialized by their caller
SerialCallers == {"c1"}

WM_CLOSE == "WM_CLOSE"
WM_DESTROY == "WM_DESTROY"
WM_USER == "WM_USER"
WM_SIZE == "WM_SIZE"
WM_MOVE == "WM_MOVE"
WM_PAINT == "WM_PAINT"
\* the messages a win_event decorator registers a handler for
Messages == {WM_CLOSE, WM_DESTROY, WM_USER, WM_SIZE, WM_MOVE, WM_PAINT}

NoCmd == [fn |-> "none", hwnd |-> "none", id |-> 0]
\* a caller's setter call: the value, the number of the call, the command it
\* put on the queue and the result _execute returned to it
NoCall == [value |-> FALSE, op |-> 0, cmd |-> NoCmd, got |-> 0]

WindowIdle ==
    /\ callerPc = [t \in Callers |-> "idle"]
    /\ callerCmd = [t \in Callers |-> NoCall]
    /\ nOps = 0
    /\ lastOp = [kind |-> "none", by |-> "none", arg |-> "none"]
    /\ ownerPc = "notStarted"
    /\ started = FALSE
    /\ waiters = {}
    /\ thread_id = "none"
    /\ hwnd = "none"
    /\ magnifier_hwnd = "none"
    /\ registered = FALSE
    /\ fullscreen_mode = FALSE
    /\ appliedMode = "none"
    /\ styleRunBy = "none"
    /\ command = <<>>
    /\ result = <<>>
    /\ msgq = <<>>
    /\ quitFlag = FALSE
    /\ magnifier = "none"
    /\ disposed = 0
    /\ bodyLog = <<>>
    /\ envClosed = FALSE

OtherSubsystems ==
    UNCHANGED <<overlayVars, providerVars, engineVars, overlayWindowVars, geometryVars>>

\* AbstractWindow.is_alive
is_alive == started

\* win32gui.PostMessage(self.hwnd, message, 0, 0): the message joins the queue of
\* the window; with self.hwnd None it goes to the queue of the posting thread,
\* which no loop of this window reads
PostMessage_Twice(q, message) ==
    IF hwnd = "none" THEN q ELSE Append(Append(q, message), message)

PostMessage(q, message) == IF hwnd = "none" THEN q ELSE Append(q, message)

\* make_fullscreen / make_partial_screen, by the value of the fullscreen flag
StyleFor(value) == IF value THEN "fullscreen" ELSE "partial"

\* _execute, line 308: self._thread_id == win32api.GetCurrentThreadId()
IsOwnerThread_Never(t) == FALSE

IsOwnerThread_Any(t) == TRUE

IsOwnerThread(t) == thread_id = t

\* win_event.on_event, lines 257-258: the handler runs for a window found in
\* AbstractWindow.windows
OnEventFindsWindow_Always == TRUE

OnEventFindsWindow == registered

\* win32gui.PumpMessages returns when it retrieves the quit message, which
\* comes after the posted messages
PumpReturns_Early == TRUE

PumpReturns == quitFlag /\ msgq = <<>>

NewOp(kind, by, arg) ==
    /\ nOps < MaxOps
    /\ nOps' = nOps + 1
    /\ lastOp' = [kind |-> kind, by |-> by, arg |-> arg]

\* ---- BasicWindow.run, on the calling thread ------------------------------
\* lines 329-330: the thread is created and started
CallRun(t) ==
    /\ callerPc[t] = "idle"
    /\ ownerPc = "notStarted"
    /\ ownerPc' = "started"
    /\ callerPc' = [callerPc EXCEPT ![t] = "waitStart"]
    /\ UNCHANGED <<callerCmd, nOps, lastOp, magnifier, disposed, bodyLog, envClosed>>
    /\ UNCHANGED <<handleVars, styleVars, queueVars>>
    /\ OtherSubsystems

\* line 331 with 286-287: Event.wait(None) returns at once when the event is
\* set, and otherwise blocks until a set() wakes it: there is no timeout
WaitWindowStart(t) ==
    /\ callerPc[t] = "waitStart"
    /\ IF started
       THEN callerPc' = [callerPc EXCEPT ![t] = "idle"] /\ UNCHANGED waiters
       ELSE callerPc' = [callerPc EXCEPT ![t] = "waiting"]
            /\ waiters' = waiters \cup {t}
    /\ UNCHANGED <<callerCmd, nOps, lastOp, started, thread_id, hwnd, magnifier_hwnd,
                   registered>>
    /\ UNCHANGED <<styleVars, queueVars, ownerVars>>
    /\ OtherSubsystems

\* the waiter woken by set() returns from wait() and from run()
WaitWindowStartWoken(t) ==
    /\ callerPc[t] = "waiting"
    /\ t \notin waiters
    /\ callerPc' = [callerPc EXCEPT ![t] = "idle"]
    /\ UNCHANGED <<callerCmd, nOps, lastOp>>
    /\ UNCHANGED <<handleVars, styleVars, queueVars, ownerVars>>
    /\ OtherSubsystems

\* ---- BasicWindow.run.inner, on the owner thread --------------------------
OwnerStep(from, to) ==
    /\ ownerPc = from
    /\ ownerPc' = to
    /\ UNCHANGED <<callerVars, envClosed>>
    /\ OtherSubsystems

\* MagnifierWindow.create_window, line 346: the engine binding
OwnerCreateMagnifier ==
    /\ OwnerStep("started", "createWindow")
    /\ magnifier' = "bound"
    /\ UNCHANGED <<disposed, bodyLog>>
    /\ UNCHANGED <<handleVars, styleVars, queueVars>>

\* ... or mag.WinMagnificationAPI() raises: inner ends with the exception
OwnerCreateMagnifierFails ==
    /\ OwnerStep("started", "dead")
    /\ UNCHANGED <<magnifier, disposed, bodyLog>>
    /\ UNCHANGED <<handleVars, styleVars, queueVars>>

\* AbstractWindow.create_window, lines 199-206: the thread id, the window class,
\* _create_window (host window, magnifier control, ShowWindow, and the call
\* self._on_move(), which posts WM_MOVE), the registry entry
OwnerCreateWindow ==
    /\ OwnerStep("createWindow", "applyStyle")
    /\ thread_id' = Owner
    /\ hwnd' = "H"
    /\ magnifier_hwnd' = "M"
    /\ registered' = TRUE
    /\ msgq' = Append(msgq, WM_MOVE)
    /\ UNCHANGED <<started, waiters, command, result, quitFlag>>
    /\ UNCHANGED <<magnifier, disposed, bodyLog>>
    /\ UNCHANGED styleVars

\* ... or a window cannot be created (RegisterClass / CreateWindowEx raise)
OwnerCreateWindowFails ==
    /\ OwnerStep("createWindow", "dead")
    /\ thread_id' = Owner
    /\ UNCHANGED <<started, waiters, hwnd, magnifier_hwnd, registered>>
    /\ UNCHANGED <<magnifier, disposed, bodyLog>>
    /\ UNCHANGED <<styleVars, queueVars>>

\* lines 207-211: the style for the flag as it is read now
OwnerApplyStyle ==
    /\ OwnerStep("applyStyle", "setStarted")
    /\ appliedMode' = StyleFor(fullscreen_mode)
    /\ styleRunBy' = Owner
    /\ UNCHANGED <<fullscreen_mode, magnifier, disposed, bodyLog>>
    /\ UNCHANGED <<handleVars, queueVars>>

\* line 212: self._window_started_event.set() wakes every waiter
OwnerSetStarted ==
    /\ OwnerStep("setStarted", "pump")
    /\ started' = TRUE
    /\ waiters' = {}
    /\ UNCHANGED <<thread_id, hwnd, magnifier_hwnd, registered>>
    /\ UNCHANGED <<magnifier, disposed, bodyLog>>
    /\ UNCHANGED <<styleVars, queueVars>>

\* ---- PumpMessages: one message is retrieved and dispatched ---------------
Dispatching(message) ==
    /\ ownerPc = "pump"
    /\ msgq # <<>>
    /\ Head(msgq) = message
    /\ msgq' = Tail(msgq)
    /\ UNCHANGED <<callerVars, envClosed>>
    /\ OtherSubsystems

Ran(message) == Append(bodyLog, [msg |-> message, by |-> Owner])

\* on_event finds no window for the handle: nothing runs
DispatchToNoWindow ==
    /\ \E message \in Messages : Dispatching(message)
    /\ ~OnEventFindsWindow
    /\ UNCHANGED <<ownerPc, magnifier, disposed, bodyLog>>
    /\ UNCHANGED <<command, result, quitFlag>>
    /\ UNCHANGED <<handleVars, styleVars>>

\* WM_CLOSE: close() calls DestroyWindow, which sends WM_DESTROY to the window
\* before it returns; WM_DESTROY: _on_destroy calls _close.  _close starts with
\* lines 239-241: it raises when the window is not alive and otherwise clears
\* the started event
DispatchCloseOrDestroy ==
    /\ \E message \in {WM_CLOSE, WM_DESTROY} :
          /\ Dispatching(message)
          /\ bodyLog' = IF message = WM_CLOSE
                        THEN Append(Ran(WM_CLOSE), [msg |-> WM_DESTROY, by |-> Owner])
                        ELSE Ran(WM_DESTROY)
    /\ OnEventFindsWindow
    /\ IF is_alive
       THEN started' = FALSE /\ ownerPc' = "close242"
       ELSE UNCHANGED <<started, ownerPc>>
    /\ UNCHANGED <<waiters, thread_id, hwnd, magnifier_hwnd, registered>>
    /\ UNCHANGED <<command, result, quitFlag, magnifier, disposed>>
    /\ UNCHANGED styleVars

\* AbstractWindow._close, lines 242-243: the registry entry, self.hwnd
OwnerCloseUnregister ==
    /\ OwnerStep("close242", "close244")
    /\ registered' = FALSE
    /\ hwnd' = "none"
    /\ UNCHANGED <<started, waiters, thread_id, magnifier_hwnd>>
    /\ UNCHANGED <<magnifier, disposed, bodyLog>>
    /\ UNCHANGED <<styleVars, queueVars>>

\* AbstractWindow._close, line 244, and MagnifierWindow._close, line 391
OwnerClosePostQuit ==
    /\ OwnerStep("close244", "pump")
    /\ quitFlag' = TRUE
    /\ magnifier_hwnd' = "none"
    /\ UNCHANGED <<started, waiters, thread_id, hwnd, registered>>
    /\ UNCHANGED <<command, result, msgq>>
    /\ UNCHANGED <<magnifier, disposed, bodyLog>>
    /\ UNCHANGED styleVars

\* _on_command_get, lines 318-320, once a command is there: it is taken, run on
\* this thread, and its result is put
RunCommand ==
    /\ command # <<>>
    /\ command' = Tail(command)
    /\ result' = Append(result, Head(command).id)
    /\ appliedMode' = Head(command).fn
    /\ styleRunBy' = Owner
    /\ UNCHANGED <<fullscreen_mode, quitFlag, magnifier, disposed>>
    /\ UNCHANGED handleVars

DispatchCommand ==
    /\ Dispatching(WM_USER)
    /\ OnEventFindsWindow
    /\ bodyLog' = Ran(WM_USER)
    /\ IF command # <<>>
       THEN RunCommand /\ UNCHANGED ownerPc
       ELSE /\ ownerPc' = "commandGet"
            /\ UNCHANGED <<command, result, quitFlag, magnifier, disposed>>
            /\ UNCHANGED <<handleVars, styleVars>>

\* line 318 blocked on the empty _command queue until a command is put
OwnerCommandArrives ==
    /\ OwnerStep("commandGet", "pump")
    /\ RunCommand
    /\ UNCHANGED <<msgq, bodyLog>>

\* WM_SIZE, WM_MOVE and WM_PAINT: _on_resize, _on_move and _draw
DispatchGeometry ==
    /\ \E message \in {WM_SIZE, WM_MOVE, WM_PAINT} :
          Dispatching(message) /\ bodyLog' = Ran(message)
    /\ OnEventFindsWindow
    /\ UNCHANGED <<ownerPc, magnifier, disposed>>
    /\ UNCHANGED <<command, result, quitFlag>>
    /\ UNCHANGED <<handleVars, styleVars>>

\* line 326 returns
OwnerPumpReturns ==
    /\ PumpReturns
    /\ OwnerStep("pump", "afterPump")
    /\ UNCHANGED <<magnifier, disposed, bodyLog>>
    /\ UNCHANGED <<handleVars, styleVars, queueVars>>

\* line 327: MagnifierWindow._after_close disposes the engine binding
OwnerAfterClose ==
    /\ OwnerStep("afterPump", "done")
    /\ magnifier' = "disposed"
    /\ disposed' = disposed + 1
    /\ UNCHANGED bodyLog
    /\ UNCHANGED <<handleVars, styleVars, queueVars>>

\* ---- calls from other threads --------------------------------------------
\* a method decorated with win_event (run_event, lines 262-269): the message is
\* posted to the window and the call returns
CallHandler(t, message) ==
    /\ callerPc[t] = "idle"
    /\ NewOp("handler", t, message)
    /\ msgq' = PostMessage(msgq, message)
    /\ UNCHANGED <<callerPc, callerCmd, command, result, quitFlag>>
    /\ UNCHANGED <<handleVars, styleVars, ownerVars>>
    /\ OtherSubsystems

\* the close box of the window in windowed style: the system posts WM_CLOSE
UserCloses ==
    /\ ~envClosed
    /\ hwnd # "none"
    /\ appliedMode = "partial"
    /\ envClosed' = TRUE
    /\ msgq' = Append(msgq, WM_CLOSE)
    /\ UNCHANGED <<ownerPc, magnifier, disposed, bodyLog>>
    /\ UNCHANGED <<command, result, quitFlag>>
    /\ UNCHANGED <<callerVars, handleVars, styleVars>>
    /\ OtherSubsystems

\* fullscreen_mode setter, line 299
SetterStart(t, value) ==
    /\ callerPc[t] = "idle"
    /\ NewOp("setter", t, value)
    /\ fullscreen_mode' = value
    /\ callerPc' = [callerPc EXCEPT ![t] = "setterCheck"]
    /\ callerCmd' = [callerCmd EXCEPT ![t] =
                         [value |-> value, op |-> nOps + 1, cmd |-> NoCmd, got |-> 0]]
    /\ UNCHANGED <<appliedMode, styleRunBy>>
    /\ UNCHANGED <<handleVars, queueVars, ownerVars>>
    /\ OtherSubsystems

\* lines 300-305: without a live window the setter returns; with one it builds
\* the command (the style for the value, self.hwnd as it is now) and calls
\* _execute, whose line 308 decides where the command runs.  On the owner
\* thread it runs at once (line 309); on another thread it is put on the
\* _command queue (lines 311-312)
SetterExecute(t) ==
    /\ callerPc[t] = "setterCheck"
    /\ LET cmd == [fn |-> StyleFor(callerCmd[t].value), hwnd |-> hwnd,
                    id |-> callerCmd[t].op]
       IN  IF ~is_alive
           THEN /\ callerPc' = [callerPc EXCEPT ![t] = "idle"]
                /\ UNCHANGED <<callerCmd, command, appliedMode, styleRunBy>>
           ELSE IF IsOwnerThread(t)
           THEN /\ appliedMode' = cmd.fn
                /\ styleRunBy' = t
                /\ callerPc' = [callerPc EXCEPT ![t] = "idle"]
                /\ UNCHANGED <<callerCmd, command>>
           ELSE /\ command' = Append(command, cmd)
                /\ callerCmd' = [callerCmd EXCEPT ![t].cmd = cmd]
                /\ callerPc' = [callerPc EXCEPT ![t] = "executePost"]
                /\ UNCHANGED <<appliedMode, styleRunBy>>
    /\ UNCHANGED <<nOps, lastOp, fullscreen_mode, result, msgq, quitFlag>>
    /\ UNCHANGED <<handleVars, ownerVars>>
    /\ OtherSubsystems

\* _execute, line 313: self._on_command_get() posts WM_USER
ExecutePost(t) ==
    /\ callerPc[t] = "executePost"
    /\ msgq' = PostMessage(msgq, WM_USER)
    /\ callerPc' = [callerPc EXCEPT ![t] = "executeGet"]
    /\ UNCHANGED <<callerCmd, nOps, lastOp, command, result, quitFlag>>
    /\ UNCHANGED <<handleVars, styleVars, ownerVars>>
    /\ OtherSubsystems

\* _execute, line 314: self._result.get() blocks until a result is there
ExecuteGet(t) ==
    /\ callerPc[t] = "executeGet"
    /\ result # <<>>
    /\ result' = Tail(result)
    /\ callerCmd' = [callerCmd EXCEPT ![t].got = Head(result)]
    /\ callerPc' = [callerPc EXCEPT ![t] = "idle"]
    /\ UNCHANGED <<nOps, lastOp, command, msgq, quitFlag>>
    /\ UNCHANGED <<handleVars, styleVars, ownerVars>>
    /\ OtherSubsystems

\* the setter used on the owner thread itself, between two messages
OwnerSetFullscreen ==
    \E value \in BOOLEAN :
        /\ ownerPc = "pump"
        /\ NewOp("setter", Owner, value)
        /\ fullscreen_mode' = value
        /\ LET cmd == [fn |-> StyleFor(value), hwnd |-> hwnd, id |-> nOps + 1]
           IN  IF ~is_alive
               THEN UNCHANGED <<ownerPc, appliedMode, styleRunBy, command, msgq>>
               ELSE IF IsOwnerThread(Owner)
               THEN /\ appliedMode' = cmd.fn
                    /\ styleRunBy' = Owner
                    /\ UNCHANGED <<ownerPc, command, msgq>>
               ELSE /\ command' = Append(command, cmd)
                    /\ msgq' = PostMessage(msgq, WM_USER)
                    /\ ownerPc' = "executeGet"
                    /\ UNCHANGED <<appliedMode, styleRunBy>>
        /\ UNCHANGED <<callerPc, callerCmd, result, quitFlag>>
        /\ UNCHANGED <<magnifier, disposed, bodyLog, envClosed>>
        /\ UNCHANGED handleVars
        /\ OtherSubsystems

WindowNext ==
    \/ \E t \in SerialCallers : CallRun(t)
    \/ \E t \in SerialCallers : WaitWindowStart(t)
    \/ \E t \in SerialCallers : WaitWindowStartWoken(t)
    \/ OwnerCreateMagnifier
    \/ OwnerCreateMagnifierFails
    \/ OwnerCreateWindow
    \/ OwnerCreateWindowFails
    \/ OwnerApplyStyle
    \/ OwnerSetStarted
    \/ DispatchToNoWindow
    \/ DispatchCloseOrDestroy
    \/ OwnerCloseUnregister
    \/ OwnerClosePostQuit
    \/ DispatchCommand
    \/ OwnerCommandArrives
    \/ DispatchGeometry
    \/ OwnerPumpReturns
    \/ OwnerAfterClose
    \/ \E t \in SerialCallers, message \in Messages : CallHandler(t, message)
    \/ UserCloses
    \/ \E t \in SerialCallers, value \in BOOLEAN : SetterStart(t, value)
    \/ \E t \in SerialCallers : SetterExecute(t)
    \/ \E t \in SerialCallers : ExecutePost(t)
    \/ \E t \in SerialCallers : ExecuteGet(t)
    \/ OwnerSetFullscreen

\* a second thread uses the setter, and so _execute, without waiting for the
\* first one
SecondCallerNext ==
    \E t \in Callers \ SerialCallers :
        \/ \E value \in BOOLEAN : SetterStart(t, value)
        \/ SetterExecute(t)
        \/ ExecutePost(t)
        \/ ExecuteGet(t)

ConcurrentNext ==
    \/ WindowNext
    \/ SecondCallerNext

\* the window as its own code drives it: WM_USER is posted by _execute alone
\* (line 313 is the only call of _on_command_get), by one thread or by two
MarshalledNext ==
    \/ \E t \in SerialCallers : CallRun(t)
    \/ \E t \in SerialCallers : WaitWindowStart(t)
    \/ \E t \in SerialCallers : WaitWindowStartWoken(t)
    \/ OwnerCreateMagnifier
    \/ OwnerCreateMagnifierFails
    \/ OwnerCreateWindow
    \/ OwnerCreateWindowFails
    \/ OwnerApplyStyle
    \/ OwnerSetStarted
    \/ DispatchToNoWindow
    \/ DispatchCloseOrDestroy
    \/ OwnerCloseUnregister
    \/ OwnerClosePostQuit
    \/ DispatchCommand
    \/ DispatchGeometry
    \/ OwnerPumpReturns
    \/ OwnerAfterClose
    \/ \E t \in SerialCallers, message \in Messages \ {WM_USER} : CallHandler(t, message)
    \/ UserCloses
    \/ \E t \in Callers, value \in BOOLEAN : SetterStart(t, value)
    \/ \E t \in Callers : SetterExecute(t)
    \/ \E t \in Callers : ExecutePost(t)
    \/ \E t \in Callers : ExecuteGet(t)
    \/ OwnerSetFullscreen

(***************************************************************************)
(* windows_utils: the zoom level and color filter trackers.                *)
(***************************************************************************)
\* mag_increase calls made from any level stop here in the model
MaxLevel == 4

\* colors, lines 21-27: the effects in list order
colors == <<"COLOR_NO_EFFECT", "COLOR_INVERSION_EFFECT", "COLOR_GRAYSCALE_EFFECT",
            "COLOR_INVERTED_GRAYSCALE_EFFECT", "COLOR_SEPIA_EFFECT">>

\* the modulus of line 86
ColorModulus == 5

EngineIdle ==
    /\ mag_level = 1
    /\ curr_color = 0
    /\ colorEffect = "unset"
    /\ colorTrail = <<0>>
    /\ lastEngineOp = [op |-> "none", before |-> 0]

\* mag_increase, lines 59-62: the new level, which is also the factor sent
mag_increase(level) == level + 1

\* mag_decrease, lines 66-72: [level, sent], the new level and the factor sent
mag_decrease_NoFloor(level) == [level |-> level - 1, sent |-> level - 1]

mag_decrease(level) ==
    IF level <= 1
    THEN [level |-> level, sent |-> 1]
    ELSE [level |-> level - 1, sent |-> level - 1]

\* mag_setColor, lines 85-86: the new index
mag_setColor_NoWrap(index) == IF index + 1 > 4 THEN 4 ELSE index + 1

mag_setColor(index) == (index + 1) % ColorModulus

EngineCall(op, before) ==
    /\ lastEngineOp' = [op |-> op, before |-> before]
    /\ UNCHANGED <<settings, contextToRectMap, lastCall, drawn>>
    /\ UNCHANGED providerVars
    /\ UNCHANGED <<callerVars, handleVars, styleVars, queueVars, ownerVars>>
    /\ UNCHANGED <<overlayWindowVars, geometryVars>>

MagIncrease ==
    /\ mag_level < MaxLevel
    /\ EngineCall("mag_increase", mag_level)
    /\ mag_level' = mag_increase(mag_level)
    /\ fullscreenTransform' = [factor |-> mag_increase(mag_level), x |-> 2, y |-> 2]
    /\ UNCHANGED <<curr_color, colorEffect, colorTrail>>

MagDecrease ==
    /\ EngineCall("mag_decrease", mag_level)
    /\ mag_level' = mag_decrease(mag_level).level
    /\ fullscreenTransform' = [factor |-> mag_decrease(mag_level).sent, x |-> 2, y |-> 2]
    /\ UNCHANGED <<curr_color, colorEffect, colorTrail>>

\* the trail after one more call: it keeps the index before and after one full
\* cycle of calls, the oldest index is dropped once it is full
Trail(trail, index) ==
    IF Len(trail) > ColorModulus
    THEN Append(Tail(trail), index)
    ELSE Append(trail, index)

MagSetColor ==
    /\ EngineCall("mag_setColor", curr_color)
    /\ curr_color' = mag_setColor(curr_color)
    /\ colorEffect' = colors[mag_setColor(curr_color) + 1]
    /\ colorTrail' = Trail(colorTrail, mag_setColor(curr_color))
    /\ UNCHANGED <<mag_level, fullscreenTransform>>

EngineNext ==
    \/ MagIncrease
    \/ MagDecrease
    \/ MagSetColor

\* where win32api.GetCursorPos() can find the cursor
CursorPositions == {<<0, 0>>, <<5, 7>>}

\* track(), lines 97-99: mag.set_fullscreen_transform(1, [x, y])
track(cursor) == [factor |-> 1, x |-> cursor[1], y |-> cursor[2]]

\* set_level(), lines 50-51
SetLevel ==
    /\ EngineCall("set_level", mag_level)
    /\ fullscreenTransform' = set_level
    /\ UNCHANGED <<mag_level, curr_color, colorEffect, colorTrail>>

Track ==
    \E cursor \in CursorPositions :
        /\ EngineCall("track", mag_level)
        /\ fullscreenTransform' = track(cursor)
        /\ UNCHANGED <<mag_level, curr_color, colorEffect, colorTrail>>

\* the zoom and position operations: the level operations, set_level, track,
\* and set_pos as updateContextRect calls it for an enabled context
ZoomNext ==
    \/ MagIncrease
    \/ MagDecrease
    \/ SetLevel
    \/ Track
    \/ SetSetting
    \/ UpdateContextRectCall

(***************************************************************************)
(* MagnifyWindow: the bounds of the overlay window and the drawing of one  *)
(* outline in the paint pass.                                              *)
(***************************************************************************)
\* displays connected at once
MaxDisplays == 2
\* rectangles of the map: width and height in 0..MaxExtent
MaxExtent == 3
\* style margins: -MaxMargin..MaxMargin
MaxMargin == 2

\* wx.Display(i).GetGeometry(): the primary display is at the origin
PrimaryDisplay == [left |-> 0, top |-> 0, width |-> 1920, height |-> 1080]
OtherDisplays == {[left |-> 1920, top |-> 0, width |-> 1280, height |-> 1024],
                  [left |-> -1280, top |-> -24, width |-> 1280, height |-> 1024]}
\* the display lists the enumeration can give: none, or the primary display
\* followed by others
DisplayLists ==
    {<<>>} \cup
    {<<PrimaryDisplay>> \o rest :
        rest \in UNION {[1..n -> OtherDisplays] : n \in 0..(MaxDisplays - 1)}}

\* the least and the greatest of start and the numbers of a sequence
RECURSIVE MinOf(_, _)
MinOf(numbers, start) ==
    IF numbers = <<>> THEN start
    ELSE LET m == MinOf(Tail(numbers), start)
         IN  IF Head(numbers) < m THEN Head(numbers) ELSE m

RECURSIVE MaxOf(_, _)
MaxOf(numbers, start) ==
    IF numbers = <<>> THEN start
    ELSE LET m == MaxOf(Tail(numbers), start)
         IN  IF Head(numbers) > m THEN Head(numbers) ELSE m

\* mouseHandler.getTotalWidthAndHeightAndMinimumPosition: the extent of the
\* union of the displays and its minimum position; no display gives an empty
\* extent at the origin
getTotalWidthAndHeightAndMinimumPosition(displays) ==
    LET n == Len(displays)
        minX == MinOf([i \in 1..n |-> displays[i].left], 0)
        minY == MinOf([i \in 1..n |-> displays[i].top], 0)
        maxX == MaxOf([i \in 1..n |-> displays[i].left + displays[i].width], 0)
        maxY == MaxOf([i \in 1..n |-> displays[i].top + displays[i].height], 0)
    IN  [width |-> maxX - minX, height |-> maxY - minY, x |-> minX, y |-> minY]

\* updateLocationForDisplays, lines 104-108: the bounds, one line of pixels short
LocationFor_FullHeight(displays) ==
    LET t == getTotalWidthAndHeightAndMinimumPosition(displays)
    IN  [left |-> t.x, top |-> t.y, width |-> t.width, height |-> t.height]

LocationFor(displays) ==
    LET t == getTotalWidthAndHeightAndMinimumPosition(displays)
    IN  [left |-> t.x, top |-> t.y, width |-> t.width, height |-> t.height - 1]

OverlayWindowIdle ==
    /\ location = None
    /\ windowShown = FALSE
    /\ locationCall = [displays |-> <<>>, raised |-> FALSE, calls |-> 0]
    /\ outline = None

OverlayWindowStep ==
    /\ UNCHANGED <<overlayVars, providerVars, engineVars, geometryVars>>
    /\ UNCHANGED <<callerVars, handleVars, styleVars, queueVars, ownerVars>>

\* updateLocationForDisplays, lines 97-121 (from __init__, from refresh requests
\* and after DISPLAY_CHANGE): the bounds are stored, the window is hidden,
\* moved and shown again; when SetWindowPos reports failure WinError is raised
\* with the window still hidden
UpdateLocationForDisplays ==
    \E displays \in DisplayLists, setWindowPosOk \in BOOLEAN :
        /\ location' = LocationFor(displays)
        /\ windowShown' = setWindowPosOk
        /\ locationCall' = [displays |-> displays, raised |-> ~setWindowPosOk,
                            calls |-> 1]
        /\ UNCHANGED outline
        /\ OverlayWindowStep

\* RectLTWH.intersection: the common part, or the zero rectangle when there is none
Intersection(r, loc) ==
    LET l == IF r.left > loc.left THEN r.left ELSE loc.left
        t == IF r.top > loc.top THEN r.top ELSE loc.top
        rr == IF r.left + r.width < loc.left + loc.width
              THEN r.left + r.width ELSE loc.left + loc.width
        b == IF r.top + r.height < loc.top + loc.height
             THEN r.top + r.height ELSE loc.top + loc.height
    IN  IF rr <= l \/ b <= t
        THEN [left |-> 0, top |-> 0, width |-> 0, height |-> 0]
        ELSE [left |-> l, top |-> t, width |-> rr - l, height |-> b - t]

\* RectLTWH.toClient: screen coordinates to coordinates of the window's client
\* area, whose origin is the window's position
toClient(r, loc) == [r EXCEPT !.left = r.left - loc.left, !.top = r.top - loc.top]

\* RectLTWH.expandOrShrink signals failure (RuntimeError) when the margin would
\* reduce the width or the height to zero or below
ExpandFails(r, margin) == r.width + 2 * margin <= 0 \/ r.height + 2 * margin <= 0

expandOrShrink(r, margin) ==
    [left |-> r.left - margin, top |-> r.top - margin,
     width |-> r.width + 2 * margin, height |-> r.height + 2 * margin]

\* _paint, lines 198-201: the margin step; a failure leaves rect as it was
MarginStep_Always(r, margin) == expandOrShrink(r, margin)

MarginStep(r, margin) ==
    IF ExpandFails(r, margin) THEN r ELSE expandOrShrink(r, margin)

\* _paint, lines 188-207, for one entry of contextRects.  toLogical (lines
\* 193-196) either fails, which leaves rect as it was, or gives the logical
\* coordinates, which are the physical ones for the DPI-aware process
DrawOutline(rect, margin) ==
    LET clipped == Intersection(rect, location)
        client == toClient(clipped, location)
    IN  [rect |-> rect, margin |-> margin,
         client |-> client,
         marginFailed |-> ExpandFails(client, margin),
         drawn |-> MarginStep(client, margin)]

MapRects == [left : {0, 1}, top : {0}, width : 0..MaxExtent, height : 0..MaxExtent]
Margins == (0 - MaxMargin)..MaxMargin

PaintOutline ==
    \E rect \in MapRects, margin \in Margins :
        /\ location # None
        /\ outline' = DrawOutline(rect, margin)
        /\ UNCHANGED <<location, windowShown, locationCall>>
        /\ OverlayWindowStep

OverlayWindowNext ==
    \/ UpdateLocationForDisplays
    \/ PaintOutline

(***************************************************************************)
(* MagnifierWindow geometry: the tracked position and size, the fullscreen *)
(* rectangle, and the source rectangle _draw hands to the magnification    *)
(* control.  The operating system owns the real window: winOrigin and      *)
(* winClient are what GetWindowRect and GetClientRect report for it.  A    *)
(* message the system sends while the window changes (WM_MOVE, WM_SIZE) is *)
(* handled on the owner thread before anything else that thread does.      *)
(***************************************************************************)
\* setter calls made on the live window
MaxToggles == 2

\* GetSystemMetrics(SM_CXFRAME), (SM_CYFRAME), (SM_CYCAPTION)
SM_CXFRAME == 4
SM_CYFRAME == 4
SM_CYCAPTION == 23

\* GetSystemMetrics(SM_CXSCREEN), (SM_CYSCREEN)
Screens == {<<1920, 1080>>}
\* where the frame can be moved to, and the client sizes a resize can leave
\* (none at all for a frame shrunk to its caption)
Origins == {<<0, 0>>, <<100, 50>>}
ClientSizes == {<<0, 0>>, <<300, 200>>}

GeometryIdle ==
    /\ position = <<0, 0>>
    /\ size = <<400, 400>>
    /\ fullscreen_rectangle = <<0, 0, 200, 200>>
    /\ winOrigin = <<0, 0>>
    /\ winClient = <<0, 0>>
    /\ sentq = <<>>
    /\ pendingStyle = None
    /\ sourceRect = None
    /\ nToggles = 0

get_fullscreen_size(screen) == <<0, 0, screen[1], screen[2]>>

\* AbstractWindow.rectangle
rectangle == position \o size

\* AbstractWindow.current_rectangle
current_rectangle == IF fullscreen_mode THEN fullscreen_rectangle ELSE rectangle

\* MagnifierWindow._on_resize, lines 403-404: the tracked size after the handler
_on_resize_Always(client) == client

_on_resize(client) == IF ~fullscreen_mode THEN client ELSE size

\* MagnifierWindow._on_move: the tracked position after the handler
_on_move(origin) ==
    IF fullscreen_mode
    THEN position
    ELSE <<origin[1] + 2 * SM_CXFRAME, origin[2] + 2 * SM_CYFRAME + SM_CYCAPTION>>

\* the client area of a framed, captioned window of outer size w x h
ClientOfFrame(w, h) ==
    <<IF w > 2 * SM_CXFRAME THEN w - 2 * SM_CXFRAME ELSE 0,
      IF h > 2 * SM_CYFRAME + SM_CYCAPTION THEN h - 2 * SM_CYFRAME - SM_CYCAPTION ELSE 0>>

\* SetWindowPos sends WM_MOVE when the origin changes and WM_SIZE when the
\* client size changes
SetWindowPosSends(origin, client) ==
    (IF origin # winOrigin THEN <<WM_MOVE>> ELSE <<>>) \o
    (IF client # winClient THEN <<WM_SIZE>> ELSE <<>>)

\* make_fullscreen / make_partial_screen on the owner thread: the style, then
\* SetWindowPos(hwnd, HWND_TOPMOST, *rect, ...)
ApplyStyle(fn, rect) ==
    LET origin == <<rect[1], rect[2]>>
        client == IF fn = "fullscreen" THEN <<rect[3], rect[4]>>
                  ELSE ClientOfFrame(rect[3], rect[4])
    IN  /\ appliedMode' = fn
        /\ styleRunBy' = Owner
        /\ winOrigin' = origin
        /\ winClient' = client
        /\ sentq' = SetWindowPosSends(origin, client)

GeoOutside ==
    /\ UNCHANGED <<overlayVars, providerVars, engineVars, overlayWindowVars>>
    /\ UNCHANGED <<callerVars, waiters, command, result, quitFlag, disposed, bodyLog,
                   envClosed>>

\* the window's identity, set once by create_window
geoHandle == <<thread_id, hwnd, magnifier_hwnd, registered, magnifier>>

\* the fullscreen_mode setter while the window is not alive: line 299 only
GeoSetFlag ==
    \E value \in BOOLEAN :
        /\ ~is_alive
        /\ fullscreen_mode' = value
        /\ UNCHANGED <<ownerPc, started, appliedMode, styleRunBy, msgq>>
        /\ UNCHANGED geoHandle
        /\ UNCHANGED geometryVars
        /\ GeoOutside

\* MagnifierWindow.create_window and AbstractWindow.create_window, lines
\* 199-206: the host window is created empty at the origin, self._on_move()
\* posts WM_MOVE, the window is registered, the screen size is read
GeoCreateWindow ==
    \E screen \in Screens :
        /\ ownerPc = "notStarted"
        /\ ownerPc' = "applyStyle"
        /\ thread_id' = Owner
        /\ hwnd' = "H"
        /\ magnifier_hwnd' = "M"
        /\ registered' = TRUE
        /\ magnifier' = "bound"
        /\ msgq' = Append(msgq, WM_MOVE)
        /\ fullscreen_rectangle' = get_fullscreen_size(screen)
        /\ UNCHANGED <<started, fullscreen_mode, appliedMode, styleRunBy>>
        /\ UNCHANGED <<position, size, winOrigin, winClient, sentq, pendingStyle,
                       sourceRect, nToggles>>
        /\ GeoOutside

\* lines 207-211
GeoApplyStyle ==
    /\ ownerPc = "applyStyle"
    /\ ownerPc' = "setStarted"
    /\ ApplyStyle(StyleFor(fullscreen_mode),
                  IF fullscreen_mode THEN fullscreen_rectangle ELSE rectangle)
    /\ UNCHANGED <<started, fullscreen_mode, msgq>>
    /\ UNCHANGED geoHandle
    /\ UNCHANGED <<position, size, fullscreen_rectangle, pendingStyle, sourceRect,
                   nToggles>>
    /\ GeoOutside

\* line 212
GeoSetStarted ==
    /\ ownerPc = "setStarted"
    /\ sentq = <<>>
    /\ ownerPc' = "pump"
    /\ started' = TRUE
    /\ UNCHANGED <<fullscreen_mode, appliedMode, styleRunBy, msgq>>
    /\ UNCHANGED geoHandle
    /\ UNCHANGED geometryVars
    /\ GeoOutside

\* a handler runs for the message at the head of sentq
Handling(message) ==
    /\ sentq # <<>>
    /\ Head(sentq) = message
    /\ sentq' = Tail(sentq)
    /\ UNCHANGED <<ownerPc, started, fullscreen_mode, appliedMode, styleRunBy, msgq>>
    /\ UNCHANGED geoHandle
    /\ UNCHANGED <<fullscreen_rectangle, winOrigin, winClient, pendingStyle, nToggles>>
    /\ GeoOutside

\* MagnifierWindow._on_resize (line 405 resizes the magnifier control to the
\* client area, whatever the mode)
OnResize ==
    /\ Handling(WM_SIZE)
    /\ size' = _on_resize(winClient)
    /\ UNCHANGED <<position, sourceRect>>

\* MagnifierWindow._on_move
OnMove ==
    /\ Handling(WM_MOVE)
    /\ position' = _on_move(winOrigin)
    /\ UNCHANGED <<size, sourceRect>>

\* MagnifierWindow._draw, lines 418-421
OnDraw ==
    /\ Handling(WM_PAINT)
    /\ sourceRect' = IF is_alive THEN current_rectangle ELSE sourceRect
    /\ UNCHANGED <<position, size>>

\* the message loop is free to take the next event
Pumping == ownerPc = "pump" /\ sentq = <<>>

OsEvent ==
    /\ Pumping
    /\ UNCHANGED <<ownerPc, started, fullscreen_mode, appliedMode, styleRunBy, msgq>>
    /\ UNCHANGED geoHandle
    /\ UNCHANGED <<position, size, fullscreen_rectangle, pendingStyle, sourceRect,
                   nToggles>>
    /\ GeoOutside

\* the frame is resized: the system sends WM_SIZE
OsResizes ==
    \E client \in ClientSizes \ {winClient} :
        /\ OsEvent
        /\ winClient' = client
        /\ sentq' = <<WM_SIZE>>
        /\ UNCHANGED winOrigin

\* the frame is moved: the system sends WM_MOVE
OsMoves ==
    \E origin \in Origins \ {winOrigin} :
        /\ OsEvent
        /\ winOrigin' = origin
        /\ sentq' = <<WM_MOVE>>
        /\ UNCHANGED winClient

\* the window is invalidated: WM_PAINT
OsInvalidates ==
    /\ OsEvent
    /\ sentq' = <<WM_PAINT>>
    /\ UNCHANGED <<winOrigin, winClient>>

\* PumpMessages takes a posted message
GeoDispatchPosted ==
    /\ Pumping
    /\ msgq # <<>>
    /\ sentq' = <<Head(msgq)>>
    /\ msgq' = Tail(msgq)
    /\ UNCHANGED <<ownerPc, started, fullscreen_mode, appliedMode, styleRunBy>>
    /\ UNCHANGED geoHandle
    /\ UNCHANGED <<position, size, fullscreen_rectangle, winOrigin, winClient,
                   pendingStyle, sourceRect, nToggles>>
    /\ GeoOutside

\* the fullscreen_mode setter on the live window, called from another thread,
\* lines 299-305: the flag, then the command with its arguments as they are now
GeoSetterStart ==
    \E value \in BOOLEAN, screen \in Screens :
        /\ is_alive
        /\ pendingStyle = None
        /\ nToggles < MaxToggles
        /\ nToggles' = nToggles + 1
        /\ fullscreen_mode' = value
        /\ fullscreen_rectangle' =
               IF value THEN get_fullscreen_size(screen) ELSE fullscreen_rectangle
        /\ pendingStyle' =
               IF value
               THEN [fn |-> StyleFor(TRUE), rect |-> get_fullscreen_size(screen)]
               ELSE [fn |-> StyleFor(FALSE), rect |-> rectangle]
        /\ UNCHANGED <<ownerPc, started, appliedMode, styleRunBy, msgq>>
        /\ UNCHANGED geoHandle
        /\ UNCHANGED <<position, size, winOrigin, winClient, sentq, sourceRect>>
        /\ GeoOutside

\* _on_command_get on the owner thread runs the command
GeoSetterApply ==
    /\ Pumping
    /\ pendingStyle # None
    /\ ApplyStyle(pendingStyle.fn, pendingStyle.rect)
    /\ pendingStyle' = None
    /\ UNCHANGED <<ownerPc, started, fullscreen_mode, msgq>>
    /\ UNCHANGED geoHandle
    /\ UNCHANGED <<position, size, fullscreen_rectangle, sourceRect, nToggles>>
    /\ GeoOutside

GeometryNext ==
    \/ GeoSetFlag
    \/ GeoCreateWindow
    \/ GeoApplyStyle
    \/ GeoSetStarted
    \/ OnResize
    \/ OnMove
    \/ OnDraw
    \/ OsResizes
    \/ OsMoves
    \/ OsInvalidates
    \/ GeoDispatchPosted
    \/ GeoSetterStart
    \/ GeoSetterApply

WindowInit == OverlayInit /\ ProviderIdle /\ WindowIdle /\ EngineIdle /\ OverlayWindowIdle
    /\ GeometryIdle

SpecWindow == WindowInit /\ [][WindowNext]_vars

OverlayStart == OverlayInit /\ ProviderIdle /\ WindowIdle /\ EngineIdle /\ OverlayWindowIdle
    /\ GeometryIdle

ProviderInit == OverlayInit /\ ProviderIdle /\ WindowIdle /\ EngineIdle /\ OverlayWindowIdle
    /\ GeometryIdle

EngineInit == OverlayInit /\ ProviderIdle /\ WindowIdle /\ EngineIdle /\ OverlayWindowIdle
    /\ GeometryIdle

OverlayWindowInit ==
    OverlayInit /\ ProviderIdle /\ WindowIdle /\ EngineIdle /\ OverlayWindowIdle
    /\ GeometryIdle

SpecOverlayWindow == OverlayWindowInit /\ [][OverlayWindowNext]_vars

SpecEngine == EngineInit /\ [][EngineNext]_vars

ZoomInit ==
    OverlayInit /\ ProviderIdle /\ WindowIdle /\ EngineIdle /\ OverlayWindowIdle
    /\ GeometryIdle

SpecZoom == ZoomInit /\ [][ZoomNext]_vars

GeometryInit ==
    OverlayInit /\ ProviderIdle /\ WindowIdle /\ EngineIdle /\ OverlayWindowIdle
    /\ GeometryIdle

SpecGeometry == GeometryInit /\ [][GeometryNext]_vars

ConcurrentInit ==
    OverlayInit /\ ProviderIdle /\ WindowIdle /\ EngineIdle /\ OverlayWindowIdle
    /\ GeometryIdle

SpecConcurrent == ConcurrentInit /\ [][ConcurrentNext]_vars

MarshalledInit ==
    OverlayInit /\ ProviderIdle /\ WindowIdle /\ EngineIdle /\ OverlayWindowIdle
    /\ GeometryIdle

SpecMarshalled == MarshalledInit /\ [][MarshalledNext]_vars

SpecProvider == ProviderInit /\ [][ProviderNext]_vars

\* The magnifier thread keeps running: its message loop retrieves what is due
\* (the timer of line 459 keeps ticking, a due paint is dispatched, the quit
\* message is retrieved) and the statements after the loop are executed.
WorkerFairness ==
    /\ WF_vars(WorkerTimerTick)
    /\ WF_vars(WorkerPaint)
    /\ WF_vars(WorkerGetQuit)
    /\ WF_vars(WorkerTerminateTimer)
    /\ WF_vars(WorkerDestroyWindow)

SpecProviderFair == ProviderInit /\ [][ProviderNext]_vars /\ WorkerFairness

SpecOverlay == OverlayStart /\ [][OverlayNext]_vars

(***************************************************************************)
(* Claims about the overlay.                                               *)
(***************************************************************************)
UpdateOps == {"updateContextRect", "handleFocusChange", "handleReviewMove",
              "handleBrowseModeMove"}
FocusFamily == {FOCUS, NAVIGATOR, FOCUS_NAVIGATOR}
JustPainted == lastCall.op = "paint"

\* C1: in a paint pass with FOCUS and NAVIGATOR both enabled: if their
\* rectangles in contextToRectMap are equal and not None, the outlines drawn for
\* the pair are exactly one, keyed FOCUS_NAVIGATOR with that rectangle, and none
\* is keyed FOCUS or NAVIGATOR; if both rectangles are present and differ (they
\* may overlap), FOCUS and NAVIGATOR are drawn each with its own rectangle and
\* FOCUS_NAVIGATOR is not drawn.
C1_MergedOutline ==
    (JustPainted /\ settings[FOCUS] /\ settings[NAVIGATOR]) =>
        LET f == DictGet(contextToRectMap, FOCUS)
            n == DictGet(contextToRectMap, NAVIGATOR)
        IN  /\ (Truthy(f) /\ f = n) =>
                  /\ (DOMAIN drawn) \cap FocusFamily = {FOCUS_NAVIGATOR}
                  /\ drawn[FOCUS_NAVIGATOR] = f
                  /\ Cardinality({k \in (DOMAIN drawn) \cap FocusFamily :
                                      drawn[k] = f}) = 1
            /\ (Truthy(f) /\ Truthy(n) /\ f # n) =>
                  /\ (DOMAIN drawn) \cap FocusFamily = {FOCUS, NAVIGATOR}
                  /\ drawn[FOCUS] = f
                  /\ drawn[NAVIGATOR] = n

\* C1 witness: a paint pass that merged equal rectangles while the browse mode
\* outline was drawn beside it.
C1_Witness ==
    /\ JustPainted /\ settings[FOCUS] /\ settings[NAVIGATOR]
    /\ DictGet(contextToRectMap, FOCUS) = RectA
    /\ DictGet(contextToRectMap, NAVIGATOR) = RectA
    /\ DOMAIN drawn = {FOCUS_NAVIGATOR, BROWSEMODE}

\* C2 (as stated): an update for a context that is not enabled, through
\* updateContextRect or through handleFocusChange / handleReviewMove /
\* handleBrowseModeMove, leaves contextToRectMap unchanged and sends nothing to
\* the engine; and a paint pass draws no outline for a context not enabled.
PaintDrawsOnlyEnabled ==
    JustPainted =>
        /\ \A c \in SupportedSet \ EnabledSet : c \notin DOMAIN drawn
        /\ FOCUS_NAVIGATOR \in DOMAIN drawn => {FOCUS, NAVIGATOR} \subseteq EnabledSet

C2_Original ==
    /\ [][(lastCall'.op \in UpdateOps /\ lastCall'.context \notin EnabledSet) =>
              (contextToRectMap' = contextToRectMap /\ lastCall'.sent = <<>>)]_vars
    /\ []PaintDrawsOnlyEnabled

\* C2 (amended): for a context that is not enabled, updateContextRect,
\* handleReviewMove and handleBrowseModeMove leave contextToRectMap unchanged and
\* send nothing to the engine; handleFocusChange with FOCUS not enabled leaves
\* every entry but BROWSEMODE's unchanged and sends nothing for FOCUS, yet still
\* does its browse mode step (it removes the BROWSEMODE entry, or updates it and
\* sends its position when BROWSEMODE is enabled); a paint pass draws no outline
\* for a context that is not enabled, whatever rectangle the map holds for it.
SameEntry(c) ==
    /\ (c \in DOMAIN contextToRectMap') = (c \in DOMAIN contextToRectMap)
    /\ DictGet(contextToRectMap', c) = DictGet(contextToRectMap, c)

C2_DisabledUpdateIsNoOp ==
    /\ [][(lastCall'.op \in UpdateOps /\ lastCall'.context \notin EnabledSet) =>
              IF lastCall'.op = "handleFocusChange"
              THEN /\ \A c \in SupportedSet \ {BROWSEMODE} : SameEntry(c)
                   /\ lastCall'.sent # <<>> =>
                          /\ BROWSEMODE \in EnabledSet
                          /\ Truthy(DictGet(contextToRectMap', BROWSEMODE))
                          /\ lastCall'.sent =
                                 <<set_pos(contextToRectMap'[BROWSEMODE].top,
                                           contextToRectMap'[BROWSEMODE].left)>>
              ELSE contextToRectMap' = contextToRectMap /\ lastCall'.sent = <<>>]_vars
    /\ []PaintDrawsOnlyEnabled

\* C2 witness: updateContextRect has just been called for NAVIGATOR, which is
\* not enabled, while the map holds a stale rectangle for it from the time it
\* was enabled.
C2_Witness ==
    /\ lastCall.op = "updateContextRect"
    /\ lastCall.context = NAVIGATOR
    /\ ~settings[NAVIGATOR]
    /\ DictGet(contextToRectMap, NAVIGATOR) = RectB

\* C17: when getContextRect raises for an enabled context, the update returns
\* normally with None recorded for that context; an operation that resolves a
\* single context then sends nothing to the engine and leaves every other
\* entry as it was; handleFocusChange sends at most the position of the other
\* context it resolved and leaves the NAVIGATOR entry as it was; and a paint
\* pass over a map holding None for a context draws no outline for it, merged
\* or not.
NoOutlineFor(c) ==
    /\ c \notin DOMAIN drawn
    /\ c \in {FOCUS, NAVIGATOR} => FOCUS_NAVIGATOR \notin DOMAIN drawn

C17_ResolveFailureRecordsNone ==
    /\ [][\A c \in SupportedSet :
              (lastCall'.op \in UpdateOps /\ c \in lastCall'.raised) =>
                  /\ c \in EnabledSet
                  /\ c \in DOMAIN contextToRectMap'
                  /\ contextToRectMap'[c] = None
                  /\ IF lastCall'.op = "handleFocusChange"
                     THEN /\ SameEntry(NAVIGATOR)
                          /\ Len(lastCall'.sent) <= 1
                          /\ lastCall'.sent # <<>> =>
                                 \E d \in {FOCUS, BROWSEMODE} \ lastCall'.raised :
                                     /\ Truthy(DictGet(contextToRectMap', d))
                                     /\ lastCall'.sent =
                                            <<set_pos(contextToRectMap'[d].top,
                                                      contextToRectMap'[d].left)>>
                     ELSE /\ c = lastCall'.context
                          /\ lastCall'.sent = <<>>
                          /\ fullscreenTransform' = fullscreenTransform
                          /\ \A d \in SupportedSet \ {c} : SameEntry(d)]_vars
    /\ [](JustPainted =>
             \A c \in SupportedSet :
                 (c \in DOMAIN contextToRectMap /\ contextToRectMap[c] = None) =>
                     NoOutlineFor(c))

\* C17 witness: the NAVIGATOR entry held a rectangle, resolving it then raised
\* in handleReviewMove, and the paint pass that followed drew the focus outline
\* alone.
C17_Witness ==
    /\ JustPainted
    /\ EnabledSet = SupportedSet
    /\ contextToRectMap = [c \in SupportedSet |->
                              IF c = NAVIGATOR THEN None ELSE RectA]
    /\ DOMAIN drawn = {FOCUS, BROWSEMODE}

(***************************************************************************)
(* Claims about the provider life cycle.                                   *)
(***************************************************************************)
\* the worker is past line 459 (the timer was created) without having failed
PastTimerCreation == workerPc \in {"timerCreated", "loop", "afterLoop",
                                    "timerTerminated", "exited"}

\* C3: __init__ raises when the bounded wait ended without the initialization
\* signal or the worker thread is dead at the check; it returns normally only
\* when the worker has assigned the window, created the timer and set the
\* running event.
C3_CtorOutcome ==
    /\ [](ctorResult = "returned" =>
              /\ waitResult /\ runningEvent
              /\ selfWindow
              /\ PastTimerCreation)
    /\ [][(mainPc = "ctorCheck" /\ mainPc' # "ctorCheck"
              /\ (waitResult = FALSE \/ ~ThreadIsAlive)) =>
             ctorResult' = "raised"]_vars

\* C3 witness: the wait timed out while the worker was still starting, and the
\* constructor raised.
C3_Witness ==
    /\ ctorResult = "raised" /\ waitResult = FALSE
    /\ workerPc = "windowCreated"

\* C4 (as stated): after a construction that failed, terminate() neither raises
\* nor blocks forever: it never ends in WinError, and while it waits in join()
\* the worker thread has ended or has a quit message to end on.
C4_TerminateSafeAfterFailedStart ==
    ctorResult = "raised" =>
        /\ mainPc # "termRaised"
        /\ mainPc = "termJoin" =>
               (~ThreadIsAlive \/ quitPosted
                    \/ workerPc \in {"afterLoop", "timerTerminated"})

\* C9 (as stated): whenever terminate() is about to call gdiPlusTerminate, the
\* worker thread is not running (and will not start) its message loop, and its
\* timer and window have been released.
C9_GdiReleasedAfterWorker ==
    mainPc = "termRelease" =>
        /\ ~ThreadIsAlive
        /\ ~timerHeld
        /\ windowHandle # "live"

\* C18: when the post of the quit message fails in terminate() (the worker
\* thread has ended while the window handle is still set), terminate raises:
\* that step changes neither GDI+, nor contextToRectMap, nor the worker, nor
\* its queue; and once terminate has raised there is no join, GDI+ stays
\* initialized and the map keeps its entries.
C18_FailedPostRaises ==
    /\ [][(mainPc = "termPost" /\ ~ThreadIsAlive /\ mainPc' # mainPc) =>
              /\ mainPc' = "termRaised"
              /\ gdiPlus' = gdiPlus
              /\ contextToRectMap' = contextToRectMap
              /\ workerPc' = workerPc
              /\ quitPosted' = quitPosted]_vars
    /\ [][mainPc = "termRaised" =>
              /\ mainPc' \in {"termRaised", "released"}
              /\ contextToRectMap' = contextToRectMap
              /\ gdiPlus' = gdiPlus]_vars
    /\ [](mainPc = "termRaised" => (gdiPlus = "init" /\ ~ThreadIsAlive))

\* C18 witness: terminate has raised while the map holds a rectangle recorded
\* before the call; GDI+ is still initialized.
C18_Witness ==
    /\ mainPc = "termRaised"
    /\ gdiPlus = "init"
    /\ workerPc = "failed"
    /\ NAVIGATOR \in DOMAIN contextToRectMap
    /\ contextToRectMap[NAVIGATOR] = RectB

(***************************************************************************)
(* Claims about the window abstraction.                                    *)
(***************************************************************************)
OwnerCreating == ownerPc \in {"started", "createWindow", "applyStyle", "setStarted"}
InRunWait(t) == callerPc[t] \in {"waitStart", "waiting"}

\* C5 (as stated): run() blocks its caller only until the window is created or
\* a bounded wait ends: a caller inside wait_window_start can always still
\* leave it (the event is set, it has been woken, or the owner thread is still
\* on its way to setting the event).
C5_RunWaitCanEnd ==
    \A t \in Callers :
        InRunWait(t) =>
            \/ callerPc[t] = "waitStart" /\ started
            \/ callerPc[t] = "waiting" /\ t \notin waiters
            \/ OwnerCreating

\* C6: when the setter, and so _execute, is used on the owner thread of a live
\* window, the command runs at once on that thread (the style for the value is
\* applied when the call returns), the owner thread does not block, and neither
\* queue is touched and no message is posted.
C6_OwnerThreadExecutesDirectly ==
    [][(nOps' # nOps /\ lastOp'.by = Owner /\ is_alive) =>
          /\ appliedMode' = StyleFor(lastOp'.arg)
          /\ styleRunBy' = Owner
          /\ command' = command
          /\ result' = result
          /\ msgq' = msgq
          /\ ownerPc' = ownerPc]_vars

\* C6 witness: the owner thread has just set fullscreen on a live window while
\* a posted message was waiting, and a command of another thread was queued.
C6_Witness ==
    /\ lastOp = [kind |-> "setter", by |-> Owner, arg |-> TRUE]
    /\ is_alive
    /\ appliedMode = "fullscreen"
    /\ msgq # <<>>
    /\ command # <<>>

Enqueued(cmd) ==
    \/ \E i \in 1..Len(command) : command[i] = cmd
    \/ \E i \in 1..Len(result) : result[i] = cmd.id

\* C7: a style change asked for by another thread runs on the owner thread and
\* never on the caller's: every style change was run by the owner; the caller's
\* command is on the request queue (or already run) when the caller is about
\* to post the command-available message; and a caller that has returned from
\* the remote _execute holds the result of its own command, which the owner
\* thread ran.
C7_SetterIsMarshalled ==
    /\ styleRunBy \in {"none", Owner}
    /\ \A t \in Callers :
          /\ callerPc[t] = "executePost" => Enqueued(callerCmd[t].cmd)
          /\ callerPc[t] \in {"executePost", "executeGet"} =>
                 callerCmd[t].cmd # NoCmd /\ callerCmd[t].got = 0
          /\ (callerPc[t] = "idle" /\ callerCmd[t].cmd # NoCmd) =>
                 /\ callerCmd[t].got = callerCmd[t].cmd.id
                 /\ ~Enqueued(callerCmd[t].cmd)

\* C7 witness: the caller set fullscreen on a live window from its own thread
\* and has returned with the result of the command the owner ran.
C7_Witness ==
    /\ callerPc["c1"] = "idle"
    /\ callerCmd["c1"].cmd.fn = "fullscreen"
    /\ callerCmd["c1"].got = callerCmd["c1"].cmd.id
    /\ appliedMode = "fullscreen"
    /\ lastOp.by = "c1" /\ lastOp.kind = "setter"

\* C8: a call of a win_event handler method from a thread other than the owner
\* posts the message (to self.hwnd) and changes nothing else: no handler body
\* runs; a handler body runs only on the owner thread, in its message loop, for
\* the message at the head of the queue and a window that is in the registry.
C8_HandlerCallOnlyPosts ==
    /\ [][(nOps' # nOps /\ lastOp'.kind = "handler") =>
             /\ lastOp'.by \in Callers
             /\ bodyLog' = bodyLog
             /\ msgq' = PostMessage(msgq, lastOp'.arg)
             /\ UNCHANGED <<handleVars, styleVars, ownerVars, command, result,
                            quitFlag, callerPc>>]_vars
    /\ [][bodyLog' # bodyLog =>
             /\ ownerPc = "pump"
             /\ registered
             /\ msgq # <<>> /\ msgq' = Tail(msgq)
             /\ Len(bodyLog') > Len(bodyLog)
             /\ bodyLog'[Len(bodyLog) + 1].msg = Head(msgq)
             /\ \A i \in 1..Len(bodyLog') : bodyLog'[i].by = Owner]_vars

\* C8 witness: the caller called _draw, and the WM_PAINT it posted was later
\* dispatched on the owner thread.
C8_Witness ==
    /\ lastOp = [kind |-> "handler", by |-> "c1", arg |-> WM_PAINT]
    /\ bodyLog # <<>>
    /\ bodyLog[Len(bodyLog)] = [msg |-> WM_PAINT, by |-> Owner]

LoopExited == ownerPc \in {"afterPump", "done"}

\* C10: the message loop exits only after the destroy handler has cleared the
\* alive flag, the registry entry and the handles (hwnd, magnifier_hwnd) and
\* posted quit; the engine binding is disposed only after the loop has exited,
\* and exactly once: it is still bound in every state in which the loop can
\* dispatch a message.
C10_DisposeAfterLoopExit ==
    /\ LoopExited =>
          /\ ~is_alive /\ ~registered
          /\ hwnd = "none" /\ magnifier_hwnd = "none"
          /\ quitFlag
    /\ disposed <= 1
    /\ disposed = 1 <=> ownerPc = "done"
    /\ (magnifier = "disposed") <=> (disposed = 1)
    /\ ownerPc \in {"pump", "close242", "close244", "commandGet"} => magnifier = "bound"

\* C10 witness: the caller asked for close, the WM_CLOSE and WM_DESTROY handlers
\* ran, the loop exited and the binding was disposed.
C10_Witness ==
    /\ lastOp = [kind |-> "handler", by |-> "c1", arg |-> WM_CLOSE]
    /\ \E i \in 1..Len(bodyLog) : bodyLog[i].msg = WM_CLOSE
    /\ ownerPc = "done"
    /\ disposed = 1

\* C11: the registry holds the window's entry whenever the window is alive
\* (is_alive implies windows[hwnd] is this window, with hwnd set); the entry
\* is added while the started signal is still unset; the entry and hwnd go
\* only in a close whose handler has already cleared the alive flag; and once
\* the entry has been removed no handler body runs any more.
C11_RegisteredWhileAlive ==
    /\ [](is_alive => (registered /\ hwnd # "none"))
    /\ [](registered <=> hwnd # "none")
    /\ [][(registered' /\ ~registered) => (~is_alive /\ ~is_alive')]_vars
    /\ [][(registered /\ ~registered') =>
             (~is_alive /\ ownerPc = "close242" /\ hwnd' = "none")]_vars
    /\ [][(~registered /\ bodyLog # <<>>) =>
             (bodyLog' = bodyLog /\ ~registered')]_vars

\* C11 witness: the window was created, lived and was destroyed, and a message
\* posted before the destroy was retrieved afterwards and ran no handler.
C11_Witness ==
    /\ ~registered /\ hwnd = "none" /\ ~is_alive
    /\ quitFlag /\ msgq = <<>>
    /\ lastOp = [kind |-> "handler", by |-> "c1", arg |-> WM_PAINT]
    /\ bodyLog # <<>>
    /\ bodyLog[Len(bodyLog)].msg = WM_DESTROY
    /\ \A i \in 1..Len(bodyLog) : bodyLog[i].msg # WM_PAINT

(***************************************************************************)
(* Claims about the overlay window's paint handler and the worker's loop.  *)
(***************************************************************************)
WorkerReleasedAll == workerPc = "exited" /\ ~timerHeld /\ windowHandle = "destroyed"

\* C12: a paint that finds the weak reference to the owner empty draws nothing
\* and posts the quit message; with the worker's loop processing its messages
\* (timer ticks keep making paints due), an owner gone while the loop runs
\* leads to the loop having ended with the timer and the window released.
C12_OwnerGoneStopsLoop ==
    /\ [][(magnifierRef = "dead" /\ paintOutcome' # paintOutcome) =>
             (paintOutcome' = "quit" /\ quitPosted' /\ paintPending' = paintPending)]_vars
    /\ ((magnifierRef = "dead" /\ workerPc = "loop") ~> WorkerReleasedAll)

\* C12 witness: the owner went away while the loop ran, a paint posted the quit
\* message, and the worker ended with timer and window released.
C12_Witness ==
    /\ magnifierRef = "dead"
    /\ paintOutcome = "quit"
    /\ ctorResult = "returned"
    /\ WorkerReleasedAll

(***************************************************************************)
(* Claims about the zoom level and color filter trackers.                  *)
(***************************************************************************)
\* C13: mag_level is an integer >= 1 after any sequence of mag_increase and
\* mag_decrease calls from level 1; mag_decrease at level 1 leaves the level at
\* 1 and sends factor 1, and at a level n > 1 it yields n - 1 (and sends it);
\* mag_increase at n yields n + 1.
C13_LevelFloor ==
    /\ mag_level \in Nat /\ mag_level >= 1
    /\ lastEngineOp.op = "mag_decrease" =>
          /\ lastEngineOp.before = 1 =>
                 (mag_level = 1 /\ fullscreenTransform = [factor |-> 1, x |-> 2, y |-> 2])
          /\ lastEngineOp.before > 1 =>
                 /\ mag_level = lastEngineOp.before - 1
                 /\ fullscreenTransform = [factor |-> mag_level, x |-> 2, y |-> 2]
    /\ lastEngineOp.op = "mag_increase" => mag_level = lastEngineOp.before + 1

\* C13 witness: mag_decrease was just applied at level 1.
C13_Witness ==
    /\ lastEngineOp = [op |-> "mag_decrease", before |-> 1]
    /\ mag_level = 1
    /\ fullscreenTransform.factor = 1
    /\ fullscreenTransform.x = 2

\* C14: the color filter index is always in 0..4; a mag_setColor call advances
\* it by one modulo 5 and applies colors[index]; five consecutive calls return
\* to the index they started from, having visited the five effects in list
\* order (none, invert, grayscale, inverted grayscale, sepia, cyclically).
C14_ColorCycle ==
    /\ curr_color \in 0..4
    /\ colorEffect # "unset" => colorEffect = colors[curr_color + 1]
    /\ lastEngineOp.op = "mag_setColor" =>
          curr_color = (lastEngineOp.before + 1) % 5
    /\ \A i \in 1..(Len(colorTrail) - 1) :
          colorTrail[i + 1] = (colorTrail[i] + 1) % 5
    /\ Len(colorTrail) = 6 =>
          /\ colorTrail[6] = colorTrail[1]
          /\ {colorTrail[i] : i \in 2..6} = 0..4
    /\ colorTrail[Len(colorTrail)] = curr_color

\* C14 witness: five calls from index 0 are back at index 0, and the fifth
\* applied the no-effect filter after sepia.
C14_Witness ==
    /\ colorTrail = <<0, 1, 2, 3, 4, 0>>
    /\ curr_color = 0
    /\ colorEffect = "COLOR_NO_EFFECT"
    /\ lastEngineOp = [op |-> "mag_setColor", before |-> 4]

(***************************************************************************)
(* Claims about the overlay window.                                        *)
(***************************************************************************)
\* C15: when the margin step of the paint pass fails (the margin would make
\* the rectangle degenerate), the outline is still drawn, for the rectangle
\* exactly as it was before the margin step; when it does not fail the
\* rectangle drawn is the one grown or shrunk by the margin on every side.
C15_MarginGuard ==
    outline # None =>
        /\ outline.marginFailed => outline.drawn = outline.client
        /\ ~outline.marginFailed =>
              /\ outline.drawn.width = outline.client.width + 2 * outline.margin
              /\ outline.drawn.height = outline.client.height + 2 * outline.margin
              /\ outline.drawn.left = outline.client.left - outline.margin
              /\ outline.drawn.top = outline.client.top - outline.margin
              /\ outline.drawn.width > 0 /\ outline.drawn.height > 0

\* C15 witness: a negative margin that would bring the width to zero: the
\* outline drawn is the rectangle before the margin step.
C15_Witness ==
    /\ outline # None
    /\ outline.margin = -1
    /\ outline.client = [left |-> 1, top |-> 0, width |-> 2, height |-> 3]
    /\ outline.marginFailed
    /\ outline.drawn = outline.client

\* C16: updateLocationForDisplays sets the bounds to left = minimum x, top =
\* minimum y, width = total width, height = total height - 1 of the union of
\* the displays; one 1920x1080 display at the origin gives (0, 0, 1920, 1079);
\* with no display the computation still yields bounds.
C16_DisplayBounds ==
    locationCall.calls > 0 =>
        LET ds == locationCall.displays
            t == getTotalWidthAndHeightAndMinimumPosition(ds)
        IN  /\ location # None
            /\ location.left = t.x /\ location.top = t.y
            /\ location.width = t.width /\ location.height = t.height - 1
            /\ \A i \in 1..Len(ds) :
                  /\ location.left <= ds[i].left
                  /\ location.top <= ds[i].top
                  /\ ds[i].left + ds[i].width <= location.left + location.width
                  /\ ds[i].top + ds[i].height <= location.top + location.height + 1
            /\ ds = <<PrimaryDisplay>> =>
                  location = [left |-> 0, top |-> 0, width |-> 1920, height |-> 1079]
            /\ ds = <<>> =>
                  location = [left |-> 0, top |-> 0, width |-> 0, height |-> -1]

\* C16 witness: the bounds for the single 1920x1080 display.
C16_Witness ==
    /\ locationCall.calls > 0
    /\ locationCall.displays = <<PrimaryDisplay>>
    /\ ~locationCall.raised
    /\ location = [left |-> 0, top |-> 0, width |-> 1920, height |-> 1079]

(***************************************************************************)
(* Claims about the MagnifierWindow geometry.                              *)
(***************************************************************************)
\* C19: the source rectangle the paint handler hands to the magnification
\* control has strictly positive width and height, whatever create, resize,
\* move, fullscreen switches and paints came before.
C19_SourceRectPositive ==
    sourceRect # None => (sourceRect[3] > 0 /\ sourceRect[4] > 0)

\* the handler for message is running in this step
Handles(message) == sentq # <<>> /\ Head(sentq) = message /\ sentq' = Tail(sentq)

\* C20: a step taken in fullscreen mode leaves the tracked position and size
\* as they are, the resize and move handlers included, so that the switch back
\* to windowed mode passes the values of the last windowed state to
\* make_partial_screen; in windowed mode the resize handler sets the tracked
\* size to the client size and nothing else, and the move handler sets the
\* tracked position to the frame origin plus twice the frame thickness, plus
\* the caption height downwards, and nothing else.
C20_HandlersFollowMode ==
    /\ [][fullscreen_mode => (position' = position /\ size' = size)]_vars
    /\ [][(pendingStyle = None /\ pendingStyle' # None /\ ~fullscreen_mode') =>
              pendingStyle'.rect = position \o size]_vars
    /\ [][(Handles(WM_SIZE) /\ ~fullscreen_mode) =>
              (size' = winClient /\ position' = position)]_vars
    /\ [][(Handles(WM_MOVE) /\ ~fullscreen_mode) =>
              /\ position' = <<winOrigin[1] + 2 * SM_CXFRAME,
                               winOrigin[2] + 2 * SM_CYFRAME + SM_CYCAPTION>>
              /\ size' = size]_vars

\* C20 witness: the window went fullscreen, was resized by the system while
\* fullscreen, and the switch back to windowed mode carries the position and
\* size tracked before, which differ from what the system reports now.
C20_Witness ==
    /\ is_alive
    /\ ~fullscreen_mode
    /\ nToggles = 2
    /\ pendingStyle # None
    /\ pendingStyle.fn = "partial"
    /\ pendingStyle.rect = <<108, 81, 300, 200>>
    /\ winClient = <<1920, 1080>>
    /\ winOrigin = <<0, 0>>

(***************************************************************************)
(* Claims about the overlay window's visibility.                           *)
(***************************************************************************)
\* C21: whenever an updateLocationForDisplays has ended, by returning or by
\* raising, the overlay window is shown again.
C21_ShownAfterUpdate ==
    locationCall.calls > 0 => windowShown

(***************************************************************************)
(* Claims about commands executed for other threads.                       *)
(***************************************************************************)
\* the owner thread has left BasicWindow.run.inner
OwnerEnded == ownerPc \in {"done", "dead"}

\* C22: an _execute call made from another thread on a live window can always
\* still return: while the caller is blocked in _result.get(), a result is
\* there or the owner thread is still running.  (With the owner thread ended
\* and no result queued, no step can release the caller.)
C22_ExecuteCanReturn ==
    \A t \in Callers :
        callerPc[t] = "executeGet" => (result # <<>> \/ ~OwnerEnded)

\* C23: a caller that has returned from _execute holds the result of the
\* command its own call enqueued, also with two threads calling at once.
C23_OwnResult ==
    \A t \in Callers :
        (callerCmd[t].cmd # NoCmd /\ callerCmd[t].got # 0) =>
            callerCmd[t].got = callerCmd[t].cmd.id

\* WM_USER messages posted to the window and not yet retrieved
PendingCommandMessages == Cardinality({i \in DOMAIN msgq : msgq[i] = WM_USER})

\* _on_command_get has just run for a dispatched WM_USER
CommandMessageHandled ==
    /\ Len(bodyLog') = Len(bodyLog) + 1
    /\ bodyLog'[Len(bodyLog')].msg = WM_USER

NoSetterInProgress == \A t \in Callers : callerPc[t] = "idle"

\* at most one call was made on the window besides run, by another thread
OneCallFromAnotherThread == nOps <= 1 /\ lastOp.by # Owner

\* C25: on a live window with no setter call in progress, the style that was
\* applied last (make_fullscreen or make_partial_screen) is the one the
\* _fullscreen_mode flag asks for, when a single setter call from another
\* thread ran while create_window was running on the owner thread.
C25_StyleMatchesFlag ==
    (is_alive /\ NoSetterInProgress /\ OneCallFromAnotherThread) =>
        appliedMode = StyleFor(fullscreen_mode)

\* a zoom or position operation has been made since the provider started
ZoomOperationMade == lastEngineOp.op # "none" \/ lastCall.sent # <<>>

\* C26: after any sequence of set_level, set_pos (from a rectangle update),
\* mag_increase, mag_decrease and track, the factor the engine last received
\* is the tracked mag_level.
C26_FactorIsLevel ==
    ZoomOperationMade => fullscreenTransform.factor = mag_level

====
